---- MODULE Spec2Model ----
(***************************************************************************)
(* Model of sortcl.py: index, cl_indices, enumerate_cls and sortcl.        *)
(*                                                                         *)
(* The four functions are pure; each is an operator computed the way the   *)
(* source computes it (loops become recursion over the loop variable).     *)
(* The state machine is a caller that invokes one function on inputs drawn *)
(* from bounded sets and records the arguments and the outcome, which is   *)
(* either a returned value or a raised exception.                          *)
(*                                                                         *)
(* Python indices (matrix ids, reported positions) are 0-based and kept    *)
(* so; positions inside TLA+ sequences are 1-based.                        *)
(***************************************************************************)
EXTENDS Integers, Sequences, FiniteSets, TLC

\* ------------------------------------------------------------------ bounds
MaxLen == 3          \* longest pairs / cls list passed to index and sortcl
MaxN == 4            \* largest n passed to cl_indices and to index(int)
MaxEnumLen == 10     \* longest cls list passed to enumerate_cls
MaxFields == 2       \* largest field count of the complete inputs

\* ------------------------------------------------------------ input domains
\* three fields, as T, E, B in the docstrings; integers, so that lists of
\* integer pairs are among the inputs
Labels == {0, 1, 2}
ValidPairs == {<<a, b>> : a, b \in Labels}
\* elements of a pairs list that are not pairs: too short and too long
BadElems == {<<0>>, <<0, 0, 0>>}
Elems == ValidPairs \cup BadElems

SeqsUpTo(S, m) == UNION {[1..l -> S] : l \in 0..m}
PairLists == SeqsUpTo(Elems, MaxLen)
\* sortcl and enumerate_cls read len(cls) and cls[k] and never look at a
\* value, so the values of a list are taken distinct: the value at input
\* position k is k
ClsOfLen(l) == [k \in 1..l |-> k]
ClsLists == {ClsOfLen(l) : l \in 0..MaxLen}
EnumLists == {ClsOfLen(l) : l \in 0..MaxEnumLen}

Triangle(k) == (k * (k + 1)) \div 2

\* the permutations of 1..l
Perms(l) == {f \in [1..l -> 1..l] : \A i, j \in 1..l : f[i] = f[j] => i = j}
Permute(s, f) == [k \in 1..Len(s) |-> s[f[k]]]

\* a list of pairs that holds every unordered pair of its labels exactly once
LabelsOf(ps) == UNION {{ps[k][i] : i \in 1..Len(ps[k])} : k \in 1..Len(ps)}
Complete(ps) ==
    /\ \A k \in 1..Len(ps) : Len(ps[k]) = 2
    /\ Len(ps) = Triangle(Cardinality(LabelsOf(ps)))
    /\ \A a, b \in LabelsOf(ps) :
          \E k \in 1..Len(ps) : {ps[k][1], ps[k][2]} = {a, b}
\* the unordered pairs of a set of labels, each as a sorted tuple
Unordered(S) == {<<a, b>> \in S \X S : a <= b}
\* pair u as given (r false) or with its elements swapped (r true)
Oriented(u, r) == IF r THEN <<u[2], u[1]>> ELSE u
\* every order of the unordered pairs of f labels, every pair either way round
CompleteLists ==
    UNION {UNION {UNION {
        {[k \in 1..Triangle(f) |-> Oriented(g[k], r[k])] :
            r \in [1..Triangle(f) -> BOOLEAN]} :
        g \in {h \in [1..Triangle(f) -> Unordered(S)] :
                  \A i, j \in 1..Triangle(f) : h[i] = h[j] => i = j}} :
        S \in {T \in SUBSET Labels : Cardinality(T) = f}} :
        f \in 0..MaxFields}

\* ---------------------------------------------------------------- outcomes
\* the absent sentinel, distinct from every value of a cls list
None == 0
Return(v) == [kind |-> "return", value |-> v]
\* faulty variant: the position is reported 1-based
NotAPair_1based(pair, i) ==
    [kind |-> "raise", exc |-> "ValueError", what |-> "is not a pair",
     pair |-> pair, position |-> i + 1]

NotAPair(pair, i) ==
    [kind |-> "raise", exc |-> "ValueError", what |-> "is not a pair",
     pair |-> pair, position |-> i]
DifferentLength ==
    [kind |-> "raise", exc |-> "ValueError",
     what |-> "cls and pairs have different length"]
NotTriangle ==
    [kind |-> "raise", exc |-> "TypeError",
     what |-> "length of cls array is not a triangle number"]
NoCall == [kind |-> "none"]

\* ------------------------------------------------------------------- index
\* faulty variant: the tuple is not sorted
sorted2_unsorted(a, b) == <<a, b>>

\* tuple(sorted([a, b]))
sorted2(a, b) == IF a <= b THEN <<a, b>> ELSE <<b, a>>

\* faulty variant: ids start at 1
setdefault_from1(idict, a) ==
    IF a \in DOMAIN idict THEN idict
    ELSE idict @@ (a :> Cardinality(DOMAIN idict) + 1)

\* if a not in idict: idict[a] = len(idict)
setdefault(idict, a) ==
    IF a \in DOMAIN idict THEN idict
    ELSE idict @@ (a :> Cardinality(DOMAIN idict))

\* faulty variant: a fresh label gets the position of its pair, idict[a] = i
RECURSIVE index_loop_pos(_, _, _, _)
index_loop_pos(pairs, k, idict, idx) ==
    IF k > Len(pairs) THEN Return(idx)
    ELSE LET pair == pairs[k] IN
         IF Len(pair) # 2 THEN NotAPair(pair, k - 1)
         ELSE LET a == pair[1]
                  b == pair[2]
                  d1 == IF a \in DOMAIN idict THEN idict
                        ELSE idict @@ (a :> k - 1)
                  d2 == IF b \in DOMAIN d1 THEN d1 ELSE d1 @@ (b :> k - 1)
              IN index_loop_pos(pairs, k + 1, d2,
                                Append(idx, sorted2(d2[a], d2[b])))

\* the for loop of index; k is the 1-based position of the next element
RECURSIVE index_loop(_, _, _, _)
index_loop(pairs, k, idict, idx) ==
    IF k > Len(pairs) THEN Return(idx)
    ELSE LET pair == pairs[k] IN
         IF Len(pair) # 2 THEN NotAPair(pair, k - 1)
         ELSE LET a == pair[1]
                  b == pair[2]
                  d1 == setdefault(idict, a)
                  d2 == setdefault(d1, b)
              IN index_loop(pairs, k + 1, d2,
                            Append(idx, sorted2(d2[a], d2[b])))

\* isinstance(pairs, int) branch
index_int(count) == Return([i \in 1..count |-> <<i - 1, i - 1>>])

index(pairs) == index_loop(pairs, 1, <<>>, <<>>)

\* -------------------------------------------------------------- cl_indices
\* for j in range(i, n): ii.append(...); jj.append(j)
RECURSIVE cl_inner(_, _, _, _, _)
cl_inner(n, new, i, j, acc) ==
    IF j >= n THEN acc
    ELSE cl_inner(n, new, i, j + 1,
                  <<Append(acc[1], IF new = FALSE THEN i ELSE j - i),
                    Append(acc[2], j)>>)

\* for i in range(n)
RECURSIVE cl_outer(_, _, _, _)
cl_outer(n, new, i, acc) ==
    IF i >= n THEN acc
    ELSE cl_outer(n, new, i + 1, cl_inner(n, new, i, i, acc))

\* faulty variant: the flag is ignored, row order in both modes
cl_indices_rows(n, new) == cl_outer(n, FALSE, 0, <<<<>>, <<>>>>)

cl_indices(n, new) == cl_outer(n, new, 0, <<<<>>, <<>>>>)

\* zip(*cl_indices(...)): the pairs (ii[k], jj[k])
zip2(lists) ==
    LET l == IF Len(lists[1]) <= Len(lists[2])
             THEN Len(lists[1]) ELSE Len(lists[2])
    IN [k \in 1..l |-> <<lists[1][k], lists[2][k]>>]

\* ----------------------------------------------------------- enumerate_cls
\* int(m ** 0.5)
isqrt(m) == CHOOSE r \in 0..m : r * r <= m /\ (r + 1) * (r + 1) > m

Min3(a, b, c) ==
    LET ab == IF a <= b THEN a ELSE b IN IF ab <= c THEN ab ELSE c

\* zip(ii, jj, cls)
zip3(ii, jj, cls) ==
    [k \in 1..Min3(Len(ii), Len(jj), Len(cls)) |-> <<ii[k], jj[k], cls[k]>>]

\* the flag new is accepted and not passed on: cl_indices(n) uses its default
enumerate_cls(cls, new) ==
    LET n == isqrt(2 * Len(cls)) IN
    IF Len(cls) # (n * (n + 1)) \div 2 THEN NotTriangle
    ELSE LET c == cl_indices(n, TRUE) IN Return(zip3(c[1], c[2], cls))

\* ------------------------------------------------------------------ sortcl
max3(i, j, n) ==
    LET ij == IF i >= j THEN i ELSE j IN IF ij >= n THEN ij ELSE n

\* n = 0; for i, j in x: n = max([i, j, n])
RECURSIVE max_loop(_, _, _)
max_loop(x, k, n) ==
    IF k > Len(x) THEN n
    ELSE max_loop(x, k + 1, max3(x[k][1], x[k][2], n))

\* faulty variant: the last match instead of the first
RECURSIVE list_index_last(_, _, _)
list_index_last(x, pos, k) ==
    IF k > Len(x) THEN 0
    ELSE LET later == list_index_last(x, pos, k + 1) IN
         IF later # 0 THEN later
         ELSE IF x[k] = pos THEN k ELSE 0

\* x.index(pos): 1-based position of the first match, 0 for ValueError
RECURSIVE list_index(_, _, _)
list_index(x, pos, k) ==
    IF k > Len(x) THEN 0
    ELSE IF x[k] = pos THEN k
    ELSE list_index(x, pos, k + 1)

\* the lookup loop over the canonical positions
sorted_cls(cls, x, canon) ==
    [p \in 1..Len(canon) |->
        LET k == list_index(x, canon[p], 1) IN
        IF k = 0 THEN None ELSE cls[k]]

\* faulty variant: n += 1 is missing
field_count_max(x) == max_loop(x, 1, 0)

field_count(x) == max_loop(x, 1, 0) + 1

\* faulty variant: the pairs are resolved before the lengths are compared
sortcl_index_first(cls, pairs, new) ==
    LET x == index(pairs) IN
    IF x.kind = "raise" THEN x
    ELSE IF Len(cls) # Len(pairs) THEN DifferentLength
    ELSE LET n == field_count(x.value)
         IN Return(sorted_cls(cls, x.value, zip2(cl_indices(n, new))))

sortcl(cls, pairs, new) ==
    IF Len(cls) # Len(pairs) THEN DifferentLength
    ELSE LET x == index(pairs) IN
         IF x.kind = "raise" THEN x
         ELSE LET n == field_count(x.value)
              IN Return(sorted_cls(cls, x.value, zip2(cl_indices(n, new))))

\* ------------------------------------------------------------------- state
VARIABLES op, cls, pairs, new, n, perm, ret, ret2
vars == <<op, cls, pairs, new, n, perm, ret, ret2>>

Init ==
    /\ op = "idle"
    /\ cls = <<>>
    /\ pairs = <<>>
    /\ new = TRUE
    /\ n = 0
    /\ perm = <<>>
    /\ ret = NoCall
    /\ ret2 = NoCall

CallIndex ==
    /\ op = "idle"
    /\ \E p \in PairLists :
        /\ pairs' = p
        /\ ret' = index(p)
    /\ op' = "index"
    /\ UNCHANGED <<cls, new, n, perm, ret2>>

CallIndexInt ==
    /\ op = "idle"
    /\ \E c \in 0..MaxN :
        /\ n' = c
        /\ ret' = index_int(c)
    /\ op' = "index_int"
    /\ UNCHANGED <<cls, pairs, new, perm, ret2>>

CallClIndices ==
    /\ op = "idle"
    /\ \E c \in 0..MaxN, b \in BOOLEAN :
        /\ n' = c
        /\ new' = b
        /\ ret' = Return(cl_indices(c, b))
    /\ op' = "cl_indices"
    /\ UNCHANGED <<cls, pairs, perm, ret2>>

CallEnumerateCls ==
    /\ op = "idle"
    /\ \E c \in EnumLists, b \in BOOLEAN :
        /\ cls' = c
        /\ new' = b
        /\ ret' = enumerate_cls(c, b)
    /\ op' = "enumerate_cls"
    /\ UNCHANGED <<pairs, n, perm, ret2>>

CallSortcl ==
    /\ op = "idle"
    /\ \E c \in ClsLists, p \in PairLists, b \in BOOLEAN :
        /\ cls' = c
        /\ pairs' = p
        /\ new' = b
        /\ ret' = sortcl(c, p, b)
    /\ op' = "sortcl"
    /\ UNCHANGED <<n, perm, ret2>>

\* sortcl on a complete list of pairs with one value per pair
CallSortclComplete ==
    /\ op = "idle"
    /\ \E p \in CompleteLists, b \in BOOLEAN :
        /\ cls' = ClsOfLen(Len(p))
        /\ pairs' = p
        /\ new' = b
        /\ ret' = sortcl(ClsOfLen(Len(p)), p, b)
    /\ op' = "sortcl"
    /\ UNCHANGED <<n, perm, ret2>>

\* the caller permutes a list that index has resolved and calls index again
IndexPermuted ==
    /\ op = "index"
    /\ ret.kind = "return"
    /\ \E f \in Perms(Len(pairs)) :
        /\ perm' = f
        /\ ret2' = index(Permute(pairs, f))
    /\ op' = "index_perm"
    /\ UNCHANGED <<cls, pairs, new, n, ret>>

\* every canonical position of sortcl(pairs, pairs, new) is filled, so the
\* result is again a list of pairs
Filled(ps, b) ==
    LET x == index(ps) IN
    /\ x.kind = "return"
    /\ LET canon == zip2(cl_indices(field_count(x.value), b)) IN
       \A p \in 1..Len(canon) : \E k \in 1..Len(x.value) : x.value[k] = canon[p]

\* the caller sorts the labels the same way, P = sortcl(pairs, pairs, new),
\* and sorts the sorted values again under P
SortAgain ==
    /\ op = "sortcl"
    /\ ret.kind = "return"
    /\ Filled(pairs, new)
    /\ ret2' = sortcl(ret.value, sortcl(pairs, pairs, new).value, new)
    /\ op' = "sortcl_again"
    /\ UNCHANGED <<cls, pairs, new, n, perm, ret>>

Done ==
    /\ op # "idle"
    /\ op' = "idle"
    /\ cls' = <<>>
    /\ pairs' = <<>>
    /\ new' = TRUE
    /\ n' = 0
    /\ perm' = <<>>
    /\ ret' = NoCall
    /\ ret2' = NoCall

Next ==
    \/ CallIndex
    \/ CallIndexInt
    \/ CallClIndices
    \/ CallEnumerateCls
    \/ CallSortcl
    \/ Done

Spec == Init /\ [][Next]_vars

\* a caller that resolves a list of pairs and then a permutation of it
NextPermuted ==
    \/ CallIndex
    \/ IndexPermuted
    \/ Done

SpecPermuted == Init /\ [][NextPermuted]_vars

\* a caller that sorts a complete input and sorts the result again
NextRoundTrip ==
    \/ CallSortclComplete
    \/ SortAgain
    \/ Done

SpecRoundTrip == Init /\ [][NextRoundTrip]_vars

\* ---------------------------------------------------------------- properties
AllPairs(ps) == \A k \in 1..Len(ps) : Len(ps[k]) = 2
BadPositions(ps) == {k \in 1..Len(ps) : Len(ps[k]) # 2}
SetMin(S) == CHOOSE m \in S : \A k \in S : m <= k
SetMax(S) == CHOOSE m \in S : \A k \in S : k <= m
Lo(a, b) == IF a <= b THEN a ELSE b
Hi(a, b) == IF a <= b THEN b ELSE a

\* the elements of a list of pairs in scanning order: first, second, first, ...
Flat(ps, m) == ps[(m + 1) \div 2][2 - (m % 2)]
FirstAt(l, ps) == SetMin({m \in 1..2 * Len(ps) : Flat(ps, m) = l})
\* the number of distinct labels first seen before l
IdOf(l, ps) ==
    Cardinality({o \in LabelsOf(ps) : FirstAt(o, ps) < FirstAt(l, ps)})
FirstSeen(ps) == [l \in LabelsOf(ps) |-> IdOf(l, ps)]

Count(s, v) == Cardinality({k \in 1..Len(s) : s[k] = v})
IsPermutation(s, t) ==
    /\ Len(s) = Len(t)
    /\ \A k \in 1..Len(s) : Count(s, s[k]) = Count(t, s[k])

\* C1: a successful sortcl on a non-empty list of pairs returns N(N+1)/2
\* entries, N = 1 + the largest component of index(pairs); entry k is the
\* value at the smallest input position whose coordinate is the k-th
\* canonical coordinate, and None when no input pair has that coordinate.
C1_SortclPlacesFirstMatch ==
    (op = "sortcl" /\ Len(cls) = Len(pairs) /\ Len(pairs) > 0
     /\ AllPairs(pairs)) =>
        /\ ret.kind = "return"
        /\ LET x == index(pairs).value
               N == 1 + SetMax(UNION {{x[m][1], x[m][2]} : m \in 1..Len(x)})
               c == zip2(cl_indices(N, new))
           IN /\ Len(ret.value) = Triangle(N)
              /\ Len(c) = Triangle(N)
              /\ \A k \in 1..Triangle(N) :
                    LET S == {m \in 1..Len(x) : x[m] = c[k]} IN
                    IF S = {} THEN ret.value[k] = None
                    ELSE ret.value[k] = cls[SetMin(S)]

\* a duplicated coordinate with different values, a missing pair, three fields
C1_Witness ==
    /\ op = "sortcl"
    /\ ret.kind = "return"
    /\ Len(ret.value) = 6
    /\ \E k \in 1..Len(ret.value) : ret.value[k] = None
    /\ LET x == index(pairs).value IN
       \E i, j \in 1..Len(x) : i < j /\ x[i] = x[j] /\ cls[i] # cls[j]

\* C2: cl_indices(n, new) returns two lists of length n(n+1)/2 whose zipped
\* pairs are every (i, j) with 0 <= i <= j < n exactly once, in row order
\* when new is false and in diagonal order (offset j - i, then i) when new is
\* true, so that the n auto-pairs come first.
C2_ClIndicesTriangleOrder ==
    (op = "cl_indices") =>
        LET ii == ret.value[1]
            jj == ret.value[2]
        IN /\ Len(ii) = Triangle(n)
           /\ Len(jj) = Triangle(n)
           /\ {<<ii[k], jj[k]>> : k \in 1..Len(ii)}
                = {<<i, j>> \in (0..n - 1) \X (0..n - 1) : i <= j}
           /\ \A k, l \in 1..Len(ii) : k # l => <<ii[k], jj[k]>> # <<ii[l], jj[l]>>
           /\ \A k, l \in 1..Len(ii) : k < l =>
                IF new
                THEN \/ jj[k] - ii[k] < jj[l] - ii[l]
                     \/ jj[k] - ii[k] = jj[l] - ii[l] /\ ii[k] < ii[l]
                ELSE \/ ii[k] < ii[l]
                     \/ ii[k] = ii[l] /\ jj[k] < jj[l]
           /\ new => \A k \in 1..n : ii[k] = k - 1 /\ jj[k] = k - 1

C2_Witness ==
    /\ op = "cl_indices"
    /\ n = 3
    /\ new
    /\ ret.value = << <<0, 1, 2, 0, 1, 0>>, <<0, 1, 2, 1, 2, 2>> >>

\* C3: index on a list of pairs returns one coordinate per pair in input
\* order; labels get the ids 0, 1, 2, ... in order of first appearance, the
\* ids used are 0..D-1 for D distinct labels, and the coordinate of (a, b) is
\* (min(id a, id b), max(id a, id b)), so i <= j.
C3_IndexFirstSeenIds ==
    (op = "index" /\ AllPairs(pairs)) =>
        /\ ret.kind = "return"
        /\ Len(ret.value) = Len(pairs)
        /\ \A k \in 1..Len(pairs) :
              LET a == IdOf(pairs[k][1], pairs)
                  b == IdOf(pairs[k][2], pairs)
              IN /\ ret.value[k] = <<Lo(a, b), Hi(a, b)>>
                 /\ ret.value[k][1] <= ret.value[k][2]
        /\ UNION {{ret.value[k][1], ret.value[k][2]} : k \in 1..Len(pairs)}
             = 0..Cardinality(LabelsOf(pairs)) - 1

\* three labels that are not first seen in ascending order, a pair given
\* with the later label first
C3_Witness ==
    /\ op = "index"
    /\ AllPairs(pairs)
    /\ ret.kind = "return"
    /\ Cardinality(LabelsOf(pairs)) = 3
    /\ \E k \in 1..Len(pairs) :
          /\ IdOf(pairs[k][1], pairs) > IdOf(pairs[k][2], pairs)
          /\ pairs[k][1] < pairs[k][2]

\* C4 as stated: for every complete input without duplicates sortcl returns
\* a permutation of cls without None, and sorting the result again under the
\* sorted pairs returns it unchanged.
C4_RoundTripEveryComplete ==
    (op \in {"sortcl", "sortcl_again"} /\ Len(cls) = Len(pairs)
     /\ Complete(pairs)) =>
        /\ ret.kind = "return"
        /\ IsPermutation(ret.value, cls)
        /\ \A k \in 1..Len(ret.value) : ret.value[k] # None
        /\ Filled(pairs, new)
        /\ op = "sortcl_again" => ret2.kind = "return" /\ ret2.value = ret.value

\* C4 amended: the same for every non-empty complete input.
C4_RoundTripNonEmpty ==
    (op \in {"sortcl", "sortcl_again"} /\ Len(cls) = Len(pairs)
     /\ Len(pairs) > 0 /\ Complete(pairs)) =>
        /\ ret.kind = "return"
        /\ IsPermutation(ret.value, cls)
        /\ \A k \in 1..Len(ret.value) : ret.value[k] # None
        /\ Filled(pairs, new)
        /\ op = "sortcl_again" => ret2.kind = "return" /\ ret2.value = ret.value

\* a complete input over two labels whose values are moved by the sort, with
\* a pair given with the later label first, sorted twice
C4_Witness ==
    /\ op = "sortcl_again"
    /\ Complete(pairs)
    /\ Cardinality(LabelsOf(pairs)) = MaxFields
    /\ ret.value # cls
    /\ \E k \in 1..Len(pairs) :
          IdOf(pairs[k][1], pairs) > IdOf(pairs[k][2], pairs)
    /\ ret2.kind = "return"
    /\ ret2.value = ret.value

\* C5 as stated: index of a permuted list of pairs is index of the list,
\* permuted the same way, for every permutation.
C5_IndexPermutationStable ==
    (op = "index_perm" /\ AllPairs(pairs)) =>
        /\ ret2.kind = "return"
        /\ Len(ret2.value) = Len(pairs)
        /\ \A k \in 1..Len(pairs) : ret2.value[k] = ret.value[perm[k]]

\* C5 amended: the same for every permutation that leaves the order in which
\* the distinct labels first appear unchanged.
C5_IndexStableSameFirstSeen ==
    (op = "index_perm" /\ AllPairs(pairs)
     /\ FirstSeen(Permute(pairs, perm)) = FirstSeen(pairs)) =>
        /\ ret2.kind = "return"
        /\ Len(ret2.value) = Len(pairs)
        /\ \A k \in 1..Len(pairs) : ret2.value[k] = ret.value[perm[k]]

\* a permutation that changes the list and keeps the first-seen order of
\* three labels
C5_Witness ==
    /\ op = "index_perm"
    /\ AllPairs(pairs)
    /\ Cardinality(LabelsOf(pairs)) = 3
    /\ Permute(pairs, perm) # pairs
    /\ FirstSeen(Permute(pairs, perm)) = FirstSeen(pairs)
    /\ ret2.kind = "return"

\* C6: index raises the invalid-pair error exactly when some element does not
\* have two components; the error carries the first such element and its
\* 0-based position, and no coordinate list.  sortcl with lists of equal
\* length raises that same error whenever pairs has such an element.
C6_InvalidPairError ==
    /\ (op = "index") =>
          /\ ret.kind = "raise" <=> ~AllPairs(pairs)
          /\ ret.kind = "raise" =>
                LET m == SetMin(BadPositions(pairs)) IN
                /\ ret.what = "is not a pair"
                /\ ret.pair = pairs[m]
                /\ ret.position = m - 1
                /\ "value" \notin DOMAIN ret
    /\ (op = "sortcl" /\ Len(cls) = Len(pairs) /\ ~AllPairs(pairs)) =>
          LET m == SetMin(BadPositions(pairs)) IN
          /\ ret.kind = "raise"
          /\ ret.what = "is not a pair"
          /\ ret.pair = pairs[m]
          /\ ret.position = m - 1
          /\ "value" \notin DOMAIN ret

\* sortcl fails on a list with two bad elements, the first at position 1
C6_Witness ==
    /\ op = "sortcl"
    /\ Len(cls) = Len(pairs)
    /\ Cardinality(BadPositions(pairs)) = 2
    /\ ret.kind = "raise"
    /\ ret.what = "is not a pair"
    /\ ret.position = 1

\* C7: sortcl raises the length-mismatch error exactly when len(cls) differs
\* from len(pairs), also when pairs holds an element that is not a pair, and
\* a failing call returns no result.
C7_LengthMismatchFirst ==
    (op = "sortcl") =>
        /\ (ret.kind = "raise"
            /\ ret.what = "cls and pairs have different length")
             <=> Len(cls) # Len(pairs)
        /\ ret.kind = "raise" => "value" \notin DOMAIN ret

\* lengths differ and pairs holds an element that is not a pair
C7_Witness ==
    /\ op = "sortcl"
    /\ Len(cls) # Len(pairs)
    /\ ~AllPairs(pairs)
    /\ ret.kind = "raise"
    /\ ret.what = "cls and pairs have different length"

\* C8: for cls of triangle length N(N+1)/2 enumerate_cls(cls, new) yields the
\* triples (ii[k], jj[k], cls[k]) with (ii, jj) = cl_indices(N, new), for both
\* values of new.
C8_EnumerateClsHonoursNew ==
    (op = "enumerate_cls"
     /\ \E N \in 0..Len(cls) : Len(cls) = Triangle(N)) =>
        LET N == CHOOSE N \in 0..Len(cls) : Len(cls) = Triangle(N)
            c == cl_indices(N, new)
        IN /\ ret.kind = "return"
           /\ Len(ret.value) = Triangle(N)
           /\ \A k \in 1..Triangle(N) :
                 ret.value[k] = <<c[1][k], c[2][k], cls[k]>>

C10_FieldCountNeverZero ==
    /\ (op = "sortcl" /\ Len(cls) = 0 /\ Len(pairs) = 0) =>
          /\ ret.kind = "return"
          /\ ret.value = <<None>>
    /\ (op = "sortcl" /\ ret.kind = "return") => Len(ret.value) >= 1

C10_Witness ==
    /\ op = "sortcl"
    /\ Len(cls) = 0
    /\ Len(pairs) = 0
    /\ ret.kind = "return"
    /\ Len(ret.value) = 1

====
